---- MODULE Spec2Model ----
(***************************************************************************)
(* A model of the three stages of the leptjson parser of this repository   *)
(* (tutorial01, tutorial02, tutorial03).  The input text is a sequence of  *)
(* byte values 1..255 followed by an implicit NUL; cursors are 1-based     *)
(* indexes into it, so the NUL sits at index Len(json) + 1.                *)
(***************************************************************************)
EXTENDS Integers, Sequences, FiniteSets

VARIABLES
    stage,        \* which tutorial's lept_parse runs: 1, 2 or 3
    char_signed,  \* whether plain char is a signed type in this build
    json,         \* the input text, without its NUL terminator
    pc,           \* position of lept_parse: start, value, string, tail, done, abort
    pos,          \* c.json, as an index into json
    ret,          \* the code lept_parse returns (or is about to return)
    v_type,       \* v->type
    v_n,          \* v->u.n (tutorial03), v->n (tutorial02)
    v_s,          \* v->u.s : the bytes s[0..len-1]; len is Len(v_s)
    stack,        \* c.stack : bytes written so far, from the bottom
    size,         \* c.size : capacity of the stack
    top,          \* c.top
    head,         \* lept_parse_string's head
    is_escaping,  \* lept_parse_string's is_escaping
    p,            \* lept_parse_string's p
    maxread       \* highest index of json read so far (0: none)

vars == <<stage, char_signed, json, pc, pos, ret, v_type, v_n, v_s,
          stack, size, top, head, is_escaping, p, maxread>>

(***************************************************************************)
(* Bounds of the explored inputs.                                          *)
(***************************************************************************)
MaxTail == 2
MaxNumLen == 4
MaxStrLen == 4

(***************************************************************************)
(* Character constants of the sources.                                     *)
(***************************************************************************)
CH_NUL == 0
CH_BS == 8
CH_TAB == 9
CH_LF == 10
CH_FF == 12
CH_CR == 13
CH_SPACE == 32
CH_QUOTE == 34
CH_PLUS == 43
CH_MINUS == 45
CH_DOT == 46
CH_SLASH == 47
CH_0 == 48
CH_1 == 49
CH_9 == 57
CH_UPPER_E == 69
CH_BACKSLASH == 92
CH_RBRACKET == 93
CH_a == 97
CH_b == 98
CH_e == 101
CH_f == 102
CH_l == 108
CH_n == 110
CH_r == 114
CH_s == 115
CH_t == 116
CH_u == 117

LIT_TRUE == <<CH_t, CH_r, CH_u, CH_e>>
LIT_FALSE == <<CH_f, CH_a, CH_l, CH_s, CH_e>>
LIT_NULL == <<CH_n, CH_u, CH_l, CH_l>>

LEPT_PARSE_STACK_INIT_SIZE == 256

(***************************************************************************)
(* The floating-point format strtod converts to (IEEE 754 binary64).       *)
(* A decimal 0.d1d2d3... * 10^X overflows when X > DBL_MAX_10_EXP + 1, or  *)
(* X = DBL_MAX_10_EXP + 1 and its digits reach those of 2^1024 - 2^970.    *)
(***************************************************************************)
DBL_MAX_10_EXP == 308
DBL_MIN_10_EXP_SUBNORMAL == -323
DBL_OVERFLOW_DIGITS == <<1, 7, 9, 7, 6, 9, 3, 1, 3, 4, 8, 6, 2, 3, 1, 5, 8, 0, 8>>

Max(a, b) == IF a >= b THEN a ELSE b
SetMin(S) == CHOOSE x \in S : \A y \in S : x <= y
SetMax(S) == CHOOSE x \in S : \A y \in S : x >= y

(***************************************************************************)
(* Reading the text.                                                       *)
(***************************************************************************)
\* The value of a byte held in a plain char.
CharVal(byte) == IF char_signed /\ byte >= 128 THEN byte - 256 ELSE byte

\* The value of a char stored back into memory as a byte.
ByteOf(ch) == ch % 256

\* *p for p an index into the NUL-terminated text s.  An index past the
\* terminator is outside the object; the invariant on maxread shows no
\* scanner reads one.
At(s, i) == IF i >= 1 /\ i <= Len(s) THEN CharVal(s[i]) ELSE CH_NUL

ISDIGIT(ch) == ch >= CH_0 /\ ch <= CH_9
ISDIGIT1TO9(ch) == ch >= CH_1 /\ ch <= CH_9

IsWhitespace(ch) == ch = CH_SPACE \/ ch = CH_TAB \/ ch = CH_LF \/ ch = CH_CR

\* lept_parse_whitespace: the new cursor.  Every byte up to and including
\* the one at the new cursor has been read.
RECURSIVE lept_parse_whitespace(_, _)
lept_parse_whitespace(s, i) ==
    IF IsWhitespace(At(s, i)) THEN lept_parse_whitespace(s, i + 1) ELSE i

\* for (...; ISDIGIT(*p); p++) : the index of the first non-digit at or after i.
RECURSIVE DigitsEnd(_, _)
DigitsEnd(s, i) == IF ISDIGIT(At(s, i)) THEN DigitsEnd(s, i + 1) ELSE i

\* The 1-based offset of the first byte of s at i.. that differs from tok,
\* 0 when all of tok matches.
FirstDiff(s, i, tok) ==
    LET D == {k \in 1..Len(tok) : At(s, i + k - 1) # tok[k]}
    IN  IF D = {} THEN 0 ELSE SetMin(D)

(***************************************************************************)
(* Return codes and value types.                                           *)
(***************************************************************************)
LEPT_PARSE_OK == "LEPT_PARSE_OK"
LEPT_PARSE_EXPECT_VALUE == "LEPT_PARSE_EXPECT_VALUE"
LEPT_PARSE_INVALID_VALUE == "LEPT_PARSE_INVALID_VALUE"
LEPT_PARSE_ROOT_NOT_SINGULAR == "LEPT_PARSE_ROOT_NOT_SINGULAR"
LEPT_PARSE_NUMBER_TOO_BIG == "LEPT_PARSE_NUMBER_TOO_BIG"
LEPT_PARSE_MISS_QUOTATION_MARK == "LEPT_PARSE_MISS_QUOTATION_MARK"
LEPT_PARSE_INVALID_STRING_ESCAPE == "LEPT_PARSE_INVALID_STRING_ESCAPE"
LEPT_PARSE_INVALID_STRING_CHAR == "LEPT_PARSE_INVALID_STRING_CHAR"

LEPT_NULL == "LEPT_NULL"
LEPT_FALSE == "LEPT_FALSE"
LEPT_TRUE == "LEPT_TRUE"
LEPT_NUMBER == "LEPT_NUMBER"
LEPT_STRING == "LEPT_STRING"

\* A double: its class, its sign, and for a finite non-zero value its
\* significant decimal digits d1 d2 ... (no leading or trailing zero) and the
\* exponent X of the value 0.d1d2... * 10^X.
NoNumber == [cls |-> "unset", neg |-> FALSE, sig |-> <<>>, exp |-> 0]

\* What a scanner hands back: its return code, the cursor, the value's type
\* and number, and the highest index it read.
Outcome(r, i, t, n, rd) == [ret |-> r, pos |-> i, type |-> t, n |-> n, rd |-> rd]

(***************************************************************************)
(* tutorial01                                                              *)
(***************************************************************************)
\* The chain written with | in place of ||: every byte is read.
OrChainReadsAll(s, i, tok) == Len(tok)

\* How many of the bytes at i, i+1, ... the chain
\*   c->json[0] != x || c->json[1] != y || ...
\* reads: || stops at the first byte that differs.
OrChainReads(s, i, tok) ==
    LET k == FirstDiff(s, i, tok) IN IF k = 0 THEN Len(tok) ELSE k

\* lept_parse_null, lept_parse_true, lept_parse_false of tutorial01: EXPECT
\* the first letter, compare the rest, set the type only on a match.
Literal1(s, i, lit, type, vt) ==
    LET rest == SubSeq(lit, 2, Len(lit))
        rd   == i + OrChainReads(s, i + 1, rest)
    IN  IF FirstDiff(s, i + 1, rest) # 0
        THEN Outcome(LEPT_PARSE_INVALID_VALUE, i + 1, vt, NoNumber, rd)
        ELSE Outcome(LEPT_PARSE_OK, i + Len(lit), type, NoNumber, rd)

lept_parse_null1(s, i, vt) == Literal1(s, i, LIT_NULL, LEPT_NULL, vt)
lept_parse_true1(s, i, vt) == Literal1(s, i, LIT_TRUE, LEPT_TRUE, vt)
lept_parse_false1(s, i, vt) == Literal1(s, i, LIT_FALSE, LEPT_FALSE, vt)

lept_parse_value1(s, i, vt) ==
    CASE At(s, i) = CH_n   -> lept_parse_null1(s, i, vt)
      [] At(s, i) = CH_t   -> lept_parse_true1(s, i, vt)
      [] At(s, i) = CH_f   -> lept_parse_false1(s, i, vt)
      [] At(s, i) = CH_NUL -> Outcome(LEPT_PARSE_EXPECT_VALUE, i, vt, NoNumber, i)
      [] OTHER             -> Outcome(LEPT_PARSE_INVALID_VALUE, i, vt, NoNumber, i)

\* The end of lept_parse of tutorial01: a failure is returned as it is; after
\* a value the whitespace is skipped and the terminator expected.
Parse1Checked(s, parse1, i1) ==
    IF parse1.ret # LEPT_PARSE_OK THEN parse1
    ELSE [parse1 EXCEPT !.pos = i1, !.rd = Max(parse1.rd, i1),
                        !.ret = IF At(s, i1) = CH_NUL THEN LEPT_PARSE_OK
                                ELSE LEPT_PARSE_ROOT_NOT_SINGULAR]

Parse1Value(s, parse1) == Parse1Checked(s, parse1, lept_parse_whitespace(s, parse1.pos))

\* lept_parse of tutorial01, as a whole.
lept_parse1_result(s) ==
    Parse1Value(s, lept_parse_value1(s, lept_parse_whitespace(s, 1), LEPT_NULL))

(***************************************************************************)
(* strtod, for the texts the number scanners hand it: they begin with an   *)
(* optional '-' and a decimal digit.  strtod reads the longest text of the *)
(* form  [sign] digits [ . digits ] [ (e|E) [sign] digits ]  and stops at  *)
(* the first byte that cannot continue it, the NUL at the latest.  (Its    *)
(* hexadecimal, INF and NAN forms need letters that no explored text       *)
(* holds.)                                                                 *)
(***************************************************************************)
\* The decimal digits of s at indexes i .. j-1, as numbers 0..9.
DigitValues(s, i, j) == [k \in 1..(j - i) |-> At(s, i + k - 1) - CH_0]

\* The number a digit sequence denotes, saturated (exponents only).
RECURSIVE DecVal(_, _)
DecVal(ds, acc) ==
    IF ds = <<>> THEN acc
    ELSE DecVal(Tail(ds), IF acc >= 100000 THEN acc ELSE acc * 10 + Head(ds))

NonZeroAt(ds) == {k \in 1..Len(ds) : ds[k] # 0}

LeadingZeros(ds) == IF NonZeroAt(ds) = {} THEN Len(ds) ELSE SetMin(NonZeroAt(ds)) - 1

\* ds without its leading and trailing zeros.
Significant(ds) ==
    IF NonZeroAt(ds) = {} THEN <<>>
    ELSE SubSeq(ds, SetMin(NonZeroAt(ds)), SetMax(NonZeroAt(ds)))

DigitOr0(a, k) == IF k <= Len(a) THEN a[k] ELSE 0

\* Whether 0.a1a2... >= 0.b1b2... for digit sequences a and b.
DigitsReach(a, b) ==
    \A k \in 1..Max(Len(a), Len(b)) :
        DigitOr0(a, k) < DigitOr0(b, k) =>
            \E j \in 1..(k - 1) : DigitOr0(a, j) > DigitOr0(b, j)
                                  /\ \A h \in 1..(j - 1) : DigitOr0(a, h) = DigitOr0(b, h)

IsSign(ch) == ch = CH_PLUS \/ ch = CH_MINUS
IsExpMark(ch) == ch = CH_e \/ ch = CH_UPPER_E

\* The index of the first exponent digit, for an exponent mark at index q.
AfterExpSign(s, q) == IF IsSign(At(s, q + 1)) THEN q + 2 ELSE q + 1

Zero(neg) == [cls |-> "zero", neg |-> neg, sig |-> <<>>, exp |-> 0]
Infinite(neg) == [cls |-> "inf", neg |-> neg, sig |-> <<>>, exp |-> 0]

\* The double nearest to (-1)^neg * 0.sig * 10^X, and whether errno becomes
\* ERANGE: the value overflows to HUGE_VAL or underflows to zero.
StrtodRound(neg, sig, X, end, rd) ==
    IF sig = <<>> THEN [val |-> Zero(neg), erange |-> FALSE, end |-> end, rd |-> rd]
    ELSE IF X > DBL_MAX_10_EXP + 1
            \/ (X = DBL_MAX_10_EXP + 1 /\ DigitsReach(sig, DBL_OVERFLOW_DIGITS))
         THEN [val |-> Infinite(neg), erange |-> TRUE, end |-> end, rd |-> rd]
    ELSE IF X < DBL_MIN_10_EXP_SUBNORMAL
         THEN [val |-> Zero(neg), erange |-> TRUE, end |-> end, rd |-> rd]
    ELSE [val |-> [cls |-> "finite", neg |-> neg, sig |-> sig, exp |-> X],
          erange |-> FALSE, end |-> end, rd |-> rd]

\* mant: the digits of the integer and fraction parts; nInt: how many of
\* them stand before the point; e: the exponent written.
StrtodValue(neg, mant, nInt, e, end, rd) ==
    StrtodRound(neg, Significant(mant), e + nInt - LeadingZeros(mant), end, rd)

Mantissa(s, q0, q1, q2) ==
    DigitValues(s, q0, q1) \o (IF q2 > q1 THEN DigitValues(s, q1 + 1, q2) ELSE <<>>)

StrtodExpEnd(s, i, q0, q1, q2, q3, q4) ==
    StrtodValue(At(s, i) = CH_MINUS, Mantissa(s, q0, q1, q2), q1 - q0,
                (IF At(s, q2 + 1) = CH_MINUS THEN -1 ELSE 1)
                    * DecVal(DigitValues(s, q3, q4), 0),
                q4, q4)

\* An exponent counts only when a digit follows its mark and sign.
StrtodExp(s, i, q0, q1, q2, q3) ==
    IF IsExpMark(At(s, q2)) /\ ISDIGIT(At(s, q3))
    THEN StrtodExpEnd(s, i, q0, q1, q2, q3, DigitsEnd(s, q3))
    ELSE StrtodValue(At(s, i) = CH_MINUS, Mantissa(s, q0, q1, q2), q1 - q0, 0, q2,
                     IF IsExpMark(At(s, q2)) THEN q3 ELSE q2)

StrtodFrac(s, i, q0, q1, q2) ==
    IF q1 = q0 /\ q2 <= q1 + 1
    THEN [val |-> Zero(FALSE), erange |-> FALSE, end |-> i, rd |-> q2]
    ELSE StrtodExp(s, i, q0, q1, q2, AfterExpSign(s, q2))

StrtodInt(s, i, q0, q1) ==
    StrtodFrac(s, i, q0, q1, IF At(s, q1) = CH_DOT THEN DigitsEnd(s, q1 + 1) ELSE q1)

StrtodSign(s, i, q0) == StrtodInt(s, i, q0, DigitsEnd(s, q0))

\* strtod(s + i, NULL): the converted value, whether errno is ERANGE, the
\* index after the text it converted, and the highest index it read.
strtod(s, i) == StrtodSign(s, i, IF IsSign(At(s, i)) THEN i + 1 ELSE i)

\* v == HUGE_VAL and v == -HUGE_VAL
IsHugeVal(n) == n.cls = "inf" /\ ~n.neg
IsMinusHugeVal(n) == n.cls = "inf" /\ n.neg

(***************************************************************************)
(* The number grammar walk, the same statements in lept_parse_number3 of   *)
(* tutorial02 and lept_parse_number of tutorial03.                         *)
(***************************************************************************)
\* The walk's result: whether the text is rejected, the index after the
\* token, and the highest index read.
Rejected(i, rd) == [bad |-> TRUE, end |-> i, rd |-> rd]
Accepted(end) == [bad |-> FALSE, end |-> end, rd |-> end]

\* An integer part that takes any run of digits, leading zeros included.
IntPartEndAnyDigits(s, i) ==
    IF ~(At(s, i) >= CH_0 /\ At(s, i) <= CH_9) THEN 0 ELSE DigitsEnd(s, i + 1)

\* if (*p == '0') p++; else { if (!ISDIGIT1TO9(*p)) return ...; for (p++; ISDIGIT(*p); p++); }
\* The index after the integer part at i, 0 when there is none.
IntPartEnd(s, i) ==
    IF At(s, i) = CH_0 THEN i + 1
    ELSE IF ~ISDIGIT1TO9(At(s, i)) THEN 0
    ELSE DigitsEnd(s, i + 1)

\* An exponent that does not require a digit.
WalkExpDigitsLenient(s, i, p4) == Accepted(DigitsEnd(s, p4))

\* The exponent's digits, from index p4.
WalkExpDigits(s, i, p4) ==
    IF ~ISDIGIT(At(s, p4)) THEN Rejected(i, p4) ELSE Accepted(DigitsEnd(s, p4 + 1))

\* if (*p == 'e' || *p == 'E') { p++; if (*p == '+' || *p == '-') p++; ... }
WalkExp(s, i, p3) ==
    IF IsExpMark(At(s, p3)) THEN WalkExpDigits(s, i, AfterExpSign(s, p3)) ELSE Accepted(p3)

\* if (*p == '.') { p++; if (!ISDIGIT(*p)) return ...; for (p++; ISDIGIT(*p); p++); }
WalkFrac(s, i, p1, p2) ==
    IF p2 = 0 THEN Rejected(i, p1)
    ELSE IF At(s, p2) # CH_DOT THEN WalkExp(s, i, p2)
    ELSE IF ~ISDIGIT(At(s, p2 + 1)) THEN Rejected(i, p2 + 1)
    ELSE WalkExp(s, i, DigitsEnd(s, p2 + 2))

WalkInt(s, i, p1) == WalkFrac(s, i, p1, IntPartEnd(s, p1))

\* if (*p == '-') p++; and the rest of the walk.
NumberWalk(s, i) == WalkInt(s, i, IF At(s, i) = CH_MINUS THEN i + 1 ELSE i)

\* The text the scanner hands to strtod: c->json, that is the whole rest of
\* the input from index i, whatever the walk consumed up to index end.
StrtodArgument(s, i, end) == SubSeq(s, i, Len(s))

\* A result of strtod on the text from index i of s, in the indexes of s.
Rebased(r, i) == [r EXCEPT !.end = i + r.end - 1, !.rd = i + r.rd - 1]

\* strtod applied to the text handed to it.
Convert(s, i, end) == Rebased(strtod(StrtodArgument(s, i, end), 1), i)

\* The end of a number scanner: errno = 0; v->n = strtod(c->json, NULL);
\* then the range test, whose outcome is tooBig.
Converted(i, vt, w, conv, tooBig) ==
    IF tooBig
    THEN Outcome(LEPT_PARSE_NUMBER_TOO_BIG, i, vt, conv.val, Max(w.rd, conv.rd))
    ELSE Outcome(LEPT_PARSE_OK, w.end, LEPT_NUMBER, conv.val, Max(w.rd, conv.rd))

\* if (errno == ERANGE && (v->u.n == HUGE_VAL || v->u.n == -HUGE_VAL))
TooBig3(conv) == conv.erange /\ (IsHugeVal(conv.val) \/ IsMinusHugeVal(conv.val))

\* if (errno == ERANGE && v->n == HUGE_VAL)
TooBig2(conv) == conv.erange /\ IsHugeVal(conv.val)

Number3Converted(i, vt, w, conv) == Converted(i, vt, w, conv, TooBig3(conv))
Number2Converted(i, vt, w, conv) == Converted(i, vt, w, conv, TooBig2(conv))

Number3Walked(s, i, vt, vn, w) ==
    IF w.bad THEN Outcome(LEPT_PARSE_INVALID_VALUE, i, vt, vn, w.rd)
    ELSE Number3Converted(i, vt, w, Convert(s, i, w.end))

Number2Walked(s, i, vt, vn, w) ==
    IF w.bad THEN Outcome(LEPT_PARSE_INVALID_VALUE, i, vt, vn, w.rd)
    ELSE Number2Converted(i, vt, w, Convert(s, i, w.end))

\* lept_parse_number of tutorial03.
lept_parse_number(s, i, vt, vn) == Number3Walked(s, i, vt, vn, NumberWalk(s, i))

\* lept_parse_number3 of tutorial02: only +HUGE_VAL is reported.
lept_parse_number3(s, i, vt, vn) == Number2Walked(s, i, vt, vn, NumberWalk(s, i))

(***************************************************************************)
(* tutorial02                                                              *)
(***************************************************************************)
\* lept_parse_literal of tutorial02: strncmp(c->json, token, strlen(token)),
\* which stops at the first byte that differs (the NUL at the latest).
lept_parse_literal2(s, i, token, type, vt, vn) ==
    LET k == FirstDiff(s, i, token)
    IN  IF k = 0
        THEN Outcome(LEPT_PARSE_OK, i + Len(token), type, vn, i + Len(token) - 1)
        ELSE Outcome(LEPT_PARSE_INVALID_VALUE, i, vt, vn, i + k - 1)

lept_parse_value2(s, i, vt, vn) ==
    CASE At(s, i) = CH_t   -> lept_parse_literal2(s, i, LIT_TRUE, LEPT_TRUE, vt, vn)
      [] At(s, i) = CH_f   -> lept_parse_literal2(s, i, LIT_FALSE, LEPT_FALSE, vt, vn)
      [] At(s, i) = CH_n   -> lept_parse_literal2(s, i, LIT_NULL, LEPT_NULL, vt, vn)
      [] At(s, i) = CH_NUL -> Outcome(LEPT_PARSE_EXPECT_VALUE, i, vt, vn, i)
      [] OTHER             -> lept_parse_number3(s, i, vt, vn)

\* What lept_parse does with a successful value: skip whitespace, and reset
\* the type when anything but the terminator follows (tutorial02, tutorial03).
RootCheck(s, r) ==
    LET i1 == lept_parse_whitespace(s, r.pos)
    IN  IF r.ret # LEPT_PARSE_OK THEN r
        ELSE IF At(s, i1) # CH_NUL
             THEN [r EXCEPT !.pos = i1, !.rd = Max(r.rd, i1), !.type = LEPT_NULL,
                            !.ret = LEPT_PARSE_ROOT_NOT_SINGULAR]
             ELSE [r EXCEPT !.pos = i1, !.rd = Max(r.rd, i1)]

\* lept_parse of tutorial02, as a whole.
lept_parse2_result(s, vn) ==
    RootCheck(s, lept_parse_value2(s, lept_parse_whitespace(s, 1), LEPT_NULL, vn))

(***************************************************************************)
(* tutorial03                                                              *)
(***************************************************************************)
\* lept_parse_literal of tutorial03: EXPECT the first letter, then compare
\* the rest byte by byte, leaving at the first that differs.
lept_parse_literal(s, i, literal, type, vt, vn) ==
    LET rest == SubSeq(literal, 2, Len(literal))
        k    == FirstDiff(s, i + 1, rest)
    IN  IF k # 0
        THEN Outcome(LEPT_PARSE_INVALID_VALUE, i + 1, vt, vn, i + k)
        ELSE Outcome(LEPT_PARSE_OK, i + Len(literal), type, vn, i + Len(rest))

\* lept_init(v)
lept_init == LEPT_NULL

\* The test written with > : an exact fill does not reallocate.
StackMustGrowStrict(csize, ctop, n) == ctop + n > csize

\* if (c->top + size >= c->size) : whether lept_context_push reallocates.
StackMustGrow(csize, ctop, n) == ctop + n >= csize

\* while (c->top + size >= c->size) c->size += c->size >> 1;
RECURSIVE GrownSize(_, _)
GrownSize(csize, need) ==
    IF need >= csize THEN GrownSize(csize + csize \div 2, need) ELSE csize

\* lept_context_push: the new capacity, the new top, and the offset returned
\* (the previous top).  realloc keeps the bytes already written.
lept_context_push(csize, ctop, n) ==
    [size |-> IF StackMustGrow(csize, ctop, n)
              THEN GrownSize(IF csize = 0 THEN LEPT_PARSE_STACK_INIT_SIZE ELSE csize,
                             ctop + n)
              ELSE csize,
     top  |-> ctop + n,
     ret  |-> ctop]

\* lept_context_pop: the new top, which is also the offset returned.
lept_context_pop(ctop, n) == ctop - n

\* The stack's bytes after *(char*)(c->stack + off) = ch.
StackWrite(stk, off, ch) ==
    IF off < Len(stk) THEN [stk EXCEPT ![off + 1] = ByteOf(ch)]
    ELSE Append(stk, ByteOf(ch))

\* The test of the default case of the Normal state: the chars it lets through.
RawAccepted(ch) ==
    ~( ~(CH_SPACE <= ch /\ ch <= 33) /\ ~(35 <= ch /\ ch <= 91) /\ ~(CH_RBRACKET <= ch) )

\* A switch that translates \n to a carriage return.
EscapedCharSwapped(ch) ==
    CASE ch = CH_QUOTE \/ ch = CH_BACKSLASH \/ ch = CH_SLASH -> ch
      [] ch = CH_b -> CH_BS
      [] ch = CH_f -> CH_FF
      [] ch = CH_n -> CH_CR
      [] ch = CH_r -> CH_CR
      [] ch = CH_t -> CH_TAB
      [] OTHER     -> -1

\* A switch whose default case pushes the char as it is.
EscapedCharLenient(ch) ==
    CASE ch = CH_b -> CH_BS
      [] ch = CH_f -> CH_FF
      [] ch = CH_n -> CH_LF
      [] ch = CH_r -> CH_CR
      [] ch = CH_t -> CH_TAB
      [] OTHER     -> ch

\* The switch of the Escaped state: the char pushed, -1 for the default case.
EscapedChar(ch) ==
    CASE ch = CH_QUOTE \/ ch = CH_BACKSLASH \/ ch = CH_SLASH -> ch
      [] ch = CH_b -> CH_BS
      [] ch = CH_f -> CH_FF
      [] ch = CH_n -> CH_LF
      [] ch = CH_r -> CH_CR
      [] ch = CH_t -> CH_TAB
      [] OTHER     -> -1

\* A failing return that leaves the pushed bytes on the stack.
TopAfterFailureKeep(ctop, h) == ctop

\* c->top = head; on each failing return of lept_parse_string.
TopAfterFailure(ctop, h) == h

(***************************************************************************)
(* The inputs explored.                                                    *)
(***************************************************************************)
\* All sequences over S of length at most n.
Strings(S, n) == UNION {[1..k -> S] : k \in 0..n}

Literals == {LIT_TRUE, LIT_FALSE, LIT_NULL}

\* A literal or a prefix of one, after optional whitespace, followed by a
\* short tail.
LiteralPrefixes == UNION {{SubSeq(lit, 1, k) : k \in 0..Len(lit)} : lit \in Literals}

LitInputs ==
    {pre \o body \o post :
        pre \in {<<>>, <<CH_SPACE>>, <<CH_TAB, CH_LF, CH_CR>>},
        body \in LiteralPrefixes,
        post \in Strings({CH_SPACE, CH_RBRACKET, CH_e}, MaxTail)}

NumAlphabet == {CH_MINUS, CH_0, CH_1, CH_DOT, CH_e, CH_SPACE, CH_RBRACKET}

NumSuffixes == {<<>>, <<CH_e, CH_9, CH_9, CH_9>>,
                <<CH_UPPER_E, CH_PLUS, CH_9>>, <<CH_e, CH_MINUS, CH_9, CH_9, CH_9>>}

\* Short texts over the characters of numbers, alone or followed by an
\* exponent.
NumInputs ==
    {t \o suffix : t \in Strings(NumAlphabet, MaxNumLen), suffix \in NumSuffixes}

\* Two bytes no source names: a control character and a byte of 0x80 or more
\* (the first byte of a two-byte UTF-8 sequence).
SampleByte == [control |-> 31, high |-> 195]

StrAlphabet ==
    {CH_QUOTE, CH_BACKSLASH, CH_a, CH_n, CH_SPACE, SampleByte.control, SampleByte.high}

\* An opening quote followed by a short text over the characters of strings.
StrInputs == {<<CH_QUOTE>> \o t : t \in Strings(StrAlphabet, MaxStrLen)}

\* The capacities the stack takes: the initial one, then each 1.5 times the
\* previous.
Capacity1 == LEPT_PARSE_STACK_INIT_SIZE
Capacity2 == Capacity1 + Capacity1 \div 2

\* String literals whose body has about as many bytes as the stack's first
\* two capacities, closed or not.
LongInputs ==
    {<<CH_QUOTE>> \o [k \in 1..n |-> CH_a] \o tail :
        n \in {Capacity1 - 2, Capacity1 - 1, Capacity1, Capacity2 - 1, Capacity2},
        tail \in {<<CH_QUOTE>>, <<CH_BACKSLASH, CH_n, CH_QUOTE>>, <<CH_BACKSLASH>>, <<>>}}

HasHighByte(s) == \E k \in 1..Len(s) : s[k] >= 128

(***************************************************************************)
(* The state machine.                                                      *)
(***************************************************************************)
\* Before lept_parse is called.  The signedness of char only shows on bytes
\* of 0x80 and more, so texts without one are explored under one build.
Init ==
    /\ stage \in {1, 2, 3}
    /\ \/ json \in LitInputs
       \/ json \in NumInputs
       \/ json \in StrInputs
       \/ json \in LongInputs
    /\ char_signed \in (IF HasHighByte(json) THEN {TRUE, FALSE} ELSE {TRUE})
    /\ pc = "start"
    /\ pos = 1
    /\ ret = LEPT_PARSE_OK
    /\ v_type = LEPT_NULL
    /\ v_n = NoNumber
    /\ v_s = <<>>
    /\ stack = <<>>
    /\ size = 0
    /\ top = 0
    /\ head = 0
    /\ is_escaping = FALSE
    /\ p = 1
    /\ maxread = 0

\* The fields of the context that only tutorial03 has, and the string
\* scanner's locals.
ctx3 == <<stack, size, top, head, is_escaping, p>>

\* lept_parse of tutorial01.
lept_parse1 ==
    /\ pc = "start" /\ stage = 1
    /\ LET r == lept_parse1_result(json)
       IN  /\ ret' = r.ret
           /\ pos' = r.pos
           /\ v_type' = r.type
           /\ maxread' = r.rd
    /\ pc' = "done"
    /\ UNCHANGED <<stage, char_signed, json, v_n, v_s, ctx3>>

\* lept_parse of tutorial02.
lept_parse2 ==
    /\ pc = "start" /\ stage = 2
    /\ LET r == lept_parse2_result(json, v_n)
       IN  /\ ret' = r.ret
           /\ pos' = r.pos
           /\ v_type' = r.type
           /\ v_n' = r.n
           /\ maxread' = r.rd
    /\ pc' = "done"
    /\ UNCHANGED <<stage, char_signed, json, v_s, ctx3>>

\* lept_parse of tutorial03 up to its call of lept_parse_value: the context
\* and the value are initialised and the leading whitespace is skipped.
lept_parse_begin ==
    /\ pc = "start" /\ stage = 3
    /\ pos' = lept_parse_whitespace(json, 1)
    /\ maxread' = pos'
    /\ stack' = <<>> /\ size' = 0 /\ top' = 0
    /\ v_type' = lept_init
    /\ pc' = "value"
    /\ UNCHANGED <<stage, char_signed, json, ret, v_n, v_s, head, is_escaping, p>>

\* lept_parse_value of tutorial03 on a literal, a number or the end of the
\* input: the scanner runs to its return.
lept_parse_value ==
    /\ pc = "value" /\ At(json, pos) # CH_QUOTE
    /\ LET ch == At(json, pos)
           r  == CASE ch = CH_t   -> lept_parse_literal(json, pos, LIT_TRUE, LEPT_TRUE, v_type, v_n)
                   [] ch = CH_f   -> lept_parse_literal(json, pos, LIT_FALSE, LEPT_FALSE, v_type, v_n)
                   [] ch = CH_n   -> lept_parse_literal(json, pos, LIT_NULL, LEPT_NULL, v_type, v_n)
                   [] ch = CH_NUL -> Outcome(LEPT_PARSE_EXPECT_VALUE, pos, v_type, v_n, pos)
                   [] OTHER       -> lept_parse_number(json, pos, v_type, v_n)
       IN  /\ ret' = r.ret
           /\ pos' = r.pos
           /\ v_type' = r.type
           /\ v_n' = r.n
           /\ maxread' = Max(maxread, r.rd)
    /\ pc' = "tail"
    /\ UNCHANGED <<stage, char_signed, json, v_s, ctx3>>

\* lept_parse_value of tutorial03 on a quote: lept_parse_string up to its
\* loop.
lept_parse_string_begin ==
    /\ pc = "value" /\ At(json, pos) = CH_QUOTE
    /\ head' = top
    /\ pos' = pos + 1
    /\ is_escaping' = FALSE
    /\ p' = pos + 1
    /\ pc' = "string"
    /\ UNCHANGED <<stage, char_signed, json, ret, v_type, v_n, v_s, stack, size, top,
                   maxread>>

\* PUTC(c, ch)
PUTC(ch) ==
    LET r == lept_context_push(size, top, 1)
    IN  /\ size' = r.size
        /\ top' = r.top
        /\ stack' = StackWrite(stack, r.ret, ch)
        /\ UNCHANGED <<pos, ret, v_type, v_n, v_s, pc>>

\* A failing return of lept_parse_string.
StringFails(code) ==
    /\ top' = TopAfterFailure(top, head)
    /\ ret' = code
    /\ pc' = "tail"
    /\ UNCHANGED <<pos, v_type, v_n, v_s, stack, size>>

\* The closing quote: the bytes pushed since head become the value's string.
StringEnds ==
    LET len  == top - head
        from == lept_context_pop(top, len)
    IN  /\ top' = from
        /\ v_s' = SubSeq(stack, from + 1, from + len)
        /\ v_type' = LEPT_STRING
        /\ pos' = p + 1
        /\ ret' = LEPT_PARSE_OK
        /\ pc' = "tail"
        /\ UNCHANGED <<v_n, stack, size>>

\* One turn of the loop of lept_parse_string.
lept_parse_string_step ==
    /\ pc = "string"
    /\ p' = p + 1
    /\ maxread' = Max(maxread, p)
    /\ LET ch == At(json, p)
       IN  IF ~is_escaping
           THEN CASE ch = CH_QUOTE     -> StringEnds /\ UNCHANGED is_escaping
                  [] ch = CH_NUL       -> StringFails(LEPT_PARSE_MISS_QUOTATION_MARK)
                                          /\ UNCHANGED is_escaping
                  [] ch = CH_BACKSLASH -> /\ is_escaping' = TRUE
                                          /\ UNCHANGED <<pos, ret, v_type, v_n, v_s, pc,
                                                         stack, size, top>>
                  [] OTHER             -> /\ IF ~RawAccepted(ch)
                                             THEN StringFails(LEPT_PARSE_INVALID_STRING_CHAR)
                                             ELSE PUTC(ch)
                                          /\ UNCHANGED is_escaping
           ELSE /\ is_escaping' = FALSE
                /\ IF EscapedChar(ch) # -1
                   THEN PUTC(EscapedChar(ch))
                   ELSE StringFails(LEPT_PARSE_INVALID_STRING_ESCAPE)
    /\ UNCHANGED <<stage, char_signed, json, head>>

\* lept_parse of tutorial03 after lept_parse_value: the trailing whitespace
\* and the single-root check, then assert(c.top == 0).
lept_parse_end ==
    /\ pc = "tail"
    /\ LET r == RootCheck(json, Outcome(ret, pos, v_type, v_n, maxread))
       IN  /\ ret' = r.ret
           /\ pos' = r.pos
           /\ v_type' = r.type
           /\ maxread' = r.rd
    /\ pc' = IF top = 0 THEN "done" ELSE "abort"
    /\ UNCHANGED <<stage, char_signed, json, v_n, v_s, ctx3>>

Next ==
    \/ lept_parse1
    \/ lept_parse2
    \/ lept_parse_begin
    \/ lept_parse_value
    \/ lept_parse_string_begin
    \/ lept_parse_string_step
    \/ lept_parse_end

Spec == Init /\ [][Next]_vars


(***************************************************************************)
(* Vocabulary of the properties, stated on the bytes of the input and not  *)
(* through the scanners above.                                             *)
(***************************************************************************)
Done == pc = "done"

\* The byte at index i of the text, 0 for its terminator.
Byte(s, i) == IF i >= 1 /\ i <= Len(s) THEN s[i] ELSE 0

IsBlankByte(b) == b \in {CH_SPACE, CH_TAB, CH_LF, CH_CR}
IsDigitByte(b) == b \in CH_0..CH_9

\* The index of the first byte of the input that is not whitespace.
TextStart == SetMin({i \in 1..(Len(json) + 1) : ~IsBlankByte(Byte(json, i))})

\* The input from its first significant byte.
Text == SubSeq(json, TextStart, Len(json))

\* The dispatcher sends the text to the number scanner.
NumberDispatched ==
    Byte(json, TextStart) \notin {CH_t, CH_f, CH_n, CH_QUOTE, CH_NUL}

\* number = [ "-" ] int [ frac ] [ exp ]
AllDigits(t) == \A k \in 1..Len(t) : IsDigitByte(t[k])
IsInt(t) == t = <<CH_0>> \/ (Len(t) >= 1 /\ t[1] \in CH_1..CH_9 /\ AllDigits(t))
IsFrac(t) == Len(t) >= 2 /\ t[1] = CH_DOT /\ AllDigits(Tail(t))
IsExp(t) ==
    /\ Len(t) >= 2
    /\ t[1] \in {CH_e, CH_UPPER_E}
    /\ IF t[2] \in {CH_PLUS, CH_MINUS}
       THEN Len(t) >= 3 /\ AllDigits(SubSeq(t, 3, Len(t)))
       ELSE AllDigits(Tail(t))
IsUnsignedNumber(t) ==
    \E i \in 1..Len(t) : \E j \in i..Len(t) :
        /\ IsInt(SubSeq(t, 1, i))
        /\ j = i \/ IsFrac(SubSeq(t, i + 1, j))
        /\ j = Len(t) \/ IsExp(SubSeq(t, j + 1, Len(t)))
IsNumber(t) ==
    IsUnsignedNumber(t) \/ (Len(t) >= 1 /\ t[1] = CH_MINUS /\ IsUnsignedNumber(Tail(t)))

NumberPrefixes(t) == {k \in 1..Len(t) : IsNumber(SubSeq(t, 1, k))}

\* The length of the longest prefix of t that is a number, 0 when none is.
LongestNumberPrefix(t) == IF NumberPrefixes(t) = {} THEN 0 ELSE SetMax(NumberPrefixes(t))

\* The text breaks the grammar where the scanner stands: it starts no number,
\* or its number (still without a fraction and an exponent) is followed by a
\* '.' and no digit, or its number (still without an exponent) is followed by
\* 'e' or 'E', an optional sign, and no digit.
BreaksGrammarAfter(t, n) ==
    \/ n = 0
    \/ /\ \A k \in 1..n : t[k] \notin {CH_DOT, CH_e, CH_UPPER_E}
       /\ Byte(t, n + 1) = CH_DOT
       /\ ~IsDigitByte(Byte(t, n + 2))
    \/ /\ \A k \in 1..n : t[k] \notin {CH_e, CH_UPPER_E}
       /\ Byte(t, n + 1) \in {CH_e, CH_UPPER_E}
       /\ ~IsDigitByte(Byte(t, IF Byte(t, n + 2) \in {CH_PLUS, CH_MINUS}
                                THEN n + 3 ELSE n + 2))

BreaksGrammar(t) == BreaksGrammarAfter(t, LongestNumberPrefix(t))

\* The integer part starts with '0' and goes on with a digit.
LeadingZero(t) ==
    \/ Byte(t, 1) = CH_0 /\ IsDigitByte(Byte(t, 2))
    \/ Byte(t, 1) = CH_MINUS /\ Byte(t, 2) = CH_0 /\ IsDigitByte(Byte(t, 3))

\* The eight escapes and the byte each stands for.
EscapeLetters == {CH_QUOTE, CH_BACKSLASH, CH_SLASH, CH_b, CH_f, CH_n, CH_r, CH_t}
EscapeTable ==
    [c \in EscapeLetters |->
        CASE c = CH_b -> 8 [] c = CH_f -> 12 [] c = CH_n -> 10 [] c = CH_r -> 13
          [] c = CH_t -> 9 [] OTHER -> c]

\* A raw byte the scanner of this build lets through: 0x20 and more, neither
\* quote nor backslash, and below 0x80 where char is signed.
AcceptedRawByte(b) ==
    b >= 32 /\ b \notin {CH_QUOTE, CH_BACKSLASH} /\ (b >= 128 => ~char_signed)

\* How many backslashes stand right before index k of b.
NonBackslashBefore(b, k) == {j \in 1..(k - 1) : b[j] # CH_BACKSLASH}
BackslashRun(b, k) ==
    IF NonBackslashBefore(b, k) = {} THEN k - 1
    ELSE k - 1 - SetMax(NonBackslashBefore(b, k))

\* The byte at index k is the second byte of an escape.
IsEscaped(b, k) == BackslashRun(b, k) % 2 = 1

\* The indexes of b that decode to a byte: all but the backslashes that open
\* an escape.
DecodingIndexes(b) == {k \in 1..Len(b) : IsEscaped(b, k) \/ b[k] # CH_BACKSLASH}

\* b is made only of accepted raw bytes and the eight escapes.
IsCleanBody(b) ==
    \A k \in 1..Len(b) :
        IF IsEscaped(b, k) THEN b[k] \in EscapeLetters
        ELSE IF b[k] = CH_BACKSLASH THEN k < Len(b)
        ELSE AcceptedRawByte(b[k])

\* The input is one string literal: a quote, a clean body, a quote.
Body == SubSeq(json, 2, Len(json) - 1)
IsCleanLiteral ==
    /\ Len(json) >= 2
    /\ json[1] = CH_QUOTE
    /\ json[Len(json)] = CH_QUOTE
    /\ IsCleanBody(Body)

\* out is the decoding of b, byte for byte and in order.
IsDecodingAt(out, b, kept) ==
    /\ Len(out) = Cardinality(kept)
    /\ \A k \in kept :
           out[Cardinality({j \in kept : j <= k})]
               = IF IsEscaped(b, k) THEN EscapeTable[b[k]] ELSE b[k]
IsDecoding(out, b) == IsDecodingAt(out, b, DecodingIndexes(b))

\* The capacities 256, 384, 576, ... up to limit.
RECURSIVE CapacitiesFrom(_, _)
CapacitiesFrom(c, limit) ==
    IF c > limit THEN {} ELSE {c} \cup CapacitiesFrom(c + c \div 2, limit)
Capacities == CapacitiesFrom(LEPT_PARSE_STACK_INIT_SIZE, 8 * LEPT_PARSE_STACK_INIT_SIZE)
LeastCapacityAbove(n) == SetMin({c \in Capacities : c > n})

\* The step is a push of one byte.
IsPush == top' = top + 1

(***************************************************************************)
(* C1: whenever lept_parse of any stage returns a code other than          *)
(* LEPT_PARSE_OK, the value's type is LEPT_NULL.                           *)
(***************************************************************************)
C1_ErrorLeavesNull == (Done /\ ret # LEPT_PARSE_OK) => v_type = LEPT_NULL

(***************************************************************************)
(* C2, as claimed: an integer part that starts with '0' and goes on with a *)
(* digit makes lept_parse return LEPT_PARSE_INVALID_VALUE.                 *)
(***************************************************************************)
C2_LeadingZeroInvalid ==
    (Done /\ stage # 1 /\ LeadingZero(Text)) => ret = LEPT_PARSE_INVALID_VALUE

(***************************************************************************)
(* C2, as amended: on such an input lept_parse of tutorial02 and           *)
(* tutorial03 never returns LEPT_PARSE_INVALID_VALUE or LEPT_PARSE_OK: the *)
(* scanner takes the single '0' as the token and lept_parse returns        *)
(* LEPT_PARSE_ROOT_NOT_SINGULAR for the digit left over, or                *)
(* LEPT_PARSE_NUMBER_TOO_BIG when the conversion, reading on past the      *)
(* token, overflows.                                                       *)
(***************************************************************************)
C2_LeadingZeroNotSingular ==
    (Done /\ stage # 1 /\ LeadingZero(Text)) =>
        IF v_n.cls = "inf" /\ (stage = 3 \/ ~v_n.neg)
        THEN ret = LEPT_PARSE_NUMBER_TOO_BIG
        ELSE ret = LEPT_PARSE_ROOT_NOT_SINGULAR

C2_Witness ==
    Done /\ stage = 3 /\ LeadingZero(Text) /\ ret = LEPT_PARSE_ROOT_NOT_SINGULAR

(***************************************************************************)
(* C3: in the Normal state every byte of 0x20 and more, other than the     *)
(* quote and the backslash, is appended unchanged and the scan goes on;    *)
(* the bytes below 0x20 yield LEPT_PARSE_INVALID_STRING_CHAR.              *)
(***************************************************************************)
C3_NormalAppendsFrom0x20 ==
    [][(pc = "string" /\ ~is_escaping /\ p <= Len(json)
            /\ json[p] \notin {CH_QUOTE, CH_BACKSLASH}) =>
         IF json[p] >= 32
         THEN /\ pc' = "string"
              /\ top' = top + 1
              /\ stack'[top'] = json[p]
              /\ SubSeq(stack', 1, top) = SubSeq(stack, 1, top)
         ELSE pc' = "tail" /\ ret' = LEPT_PARSE_INVALID_STRING_CHAR]_vars

(***************************************************************************)
(* C4: c.top is 0 when lept_parse of tutorial03 reaches its end, so        *)
(* assert(c.top == 0) never fails: when lept_parse_string returns, by its  *)
(* success or by any of its failures, top is back at head, which is 0.     *)
(***************************************************************************)
C4_StackDrained ==
    /\ pc # "abort"
    /\ pc \in {"tail", "done"} => (top = 0 /\ top = head)

C4_Witness ==
    Done /\ stage = 3 /\ ret = LEPT_PARSE_INVALID_STRING_ESCAPE /\ Len(stack) >= 2

(***************************************************************************)
(* C5: a string literal made only of accepted raw bytes and the eight      *)
(* escapes parses to LEPT_PARSE_OK, type LEPT_STRING, with the decoded     *)
(* bytes in order as its payload and their number as its length, also when *)
(* they outgrow the stack's initial capacity.                              *)
(***************************************************************************)
C5_LiteralDecodes ==
    (Done /\ stage = 3 /\ IsCleanLiteral) =>
        /\ ret = LEPT_PARSE_OK
        /\ v_type = LEPT_STRING
        /\ IsDecoding(v_s, Body)

C5_Witness ==
    /\ Done /\ stage = 3 /\ IsCleanLiteral
    /\ Len(v_s) > LEPT_PARSE_STACK_INIT_SIZE
    /\ size > LEPT_PARSE_STACK_INIT_SIZE
    /\ v_s[Len(v_s)] = CH_LF

(***************************************************************************)
(* C6, as claimed: when the string scanner meets the end of the input, in  *)
(* the Normal or in the Escaped state, LEPT_PARSE_MISS_QUOTATION_MARK is   *)
(* returned.                                                               *)
(***************************************************************************)
C6_EndOfInputMissesQuote ==
    [][(pc = "string" /\ p > Len(json)) =>
         (pc' = "tail" /\ ret' = LEPT_PARSE_MISS_QUOTATION_MARK)]_vars

(***************************************************************************)
(* C6, as amended: when the string scanner meets the end of the input in   *)
(* the Normal state, LEPT_PARSE_MISS_QUOTATION_MARK is returned; when it   *)
(* meets it in the Escaped state (the literal ends in a lone backslash),   *)
(* LEPT_PARSE_INVALID_STRING_ESCAPE is returned.                           *)
(***************************************************************************)
C6_EndOfInputByState ==
    [][(pc = "string" /\ p > Len(json)) =>
         /\ pc' = "tail"
         /\ ret' = IF is_escaping THEN LEPT_PARSE_INVALID_STRING_ESCAPE
                   ELSE LEPT_PARSE_MISS_QUOTATION_MARK]_vars

C6_Witness ==
    /\ Done /\ stage = 3 /\ ret = LEPT_PARSE_MISS_QUOTATION_MARK
    /\ p = Len(json) + 2 /\ Len(stack) >= 1

(***************************************************************************)
(* C7: lept_parse_number of tutorial03 returns LEPT_PARSE_INVALID_VALUE    *)
(* exactly when the text breaks the grammar where it is scanned; otherwise *)
(* it returns LEPT_PARSE_NUMBER_TOO_BIG when the conversion overflows, and *)
(* else sets the type LEPT_NUMBER and advances the cursor by the length of *)
(* the longest prefix that is a number; a failure leaves the type as it    *)
(* was when the scanner was called, which is as lept_init left it.         *)
(***************************************************************************)
C7_NumberFollowsGrammar ==
    (stage = 3 /\ pc = "tail" /\ NumberDispatched) =>
        /\ ret = LEPT_PARSE_INVALID_VALUE <=> BreaksGrammar(Text)
        /\ ret = LEPT_PARSE_NUMBER_TOO_BIG <=> (~BreaksGrammar(Text) /\ v_n.cls = "inf")
        /\ ret \in {LEPT_PARSE_INVALID_VALUE, LEPT_PARSE_NUMBER_TOO_BIG, LEPT_PARSE_OK}
        /\ ret = LEPT_PARSE_OK =>
               (v_type = LEPT_NUMBER /\ pos - TextStart = LongestNumberPrefix(Text))
        /\ ret # LEPT_PARSE_OK => v_type = lept_init

C7_Witness ==
    /\ stage = 3 /\ pc = "tail" /\ NumberDispatched /\ ret = LEPT_PARSE_OK
    /\ pos - TextStart >= 3 /\ pos <= Len(json)

(***************************************************************************)
(* C8, as claimed: a push changes the capacity only when top + size is     *)
(* greater than the capacity; a push that fits, the one that fills the     *)
(* stack exactly included, leaves it unchanged; a capacity that changes    *)
(* becomes one of 256, 384, 576, ... that holds the bytes.                 *)
(***************************************************************************)
C8_GrowsOnlyWhenExceeded ==
    [][IsPush =>
         IF top + 1 <= size THEN size' = size
         ELSE size' \in Capacities /\ size' >= top + 1]_vars

(***************************************************************************)
(* C8, as amended: a push changes the capacity exactly when top + size is  *)
(* greater than or equal to the capacity, so also when the bytes would     *)
(* fill the stack exactly; the new capacity is the least of 256, 384, 576, *)
(* ... (each 1.5 times the previous, rounded down) that is greater than    *)
(* top + size.                                                             *)
(***************************************************************************)
C8_GrowsWhenReached ==
    [][IsPush =>
         IF top + 1 < size THEN size' = size
         ELSE size' # size /\ size' = LeastCapacityAbove(top + 1)]_vars

C8_Witness ==
    /\ pc = "string"
    /\ top = LEPT_PARSE_STACK_INIT_SIZE
    /\ size = LEPT_PARSE_STACK_INIT_SIZE + LEPT_PARSE_STACK_INIT_SIZE \div 2

(***************************************************************************)
(* C9: the conversion is handed exactly the characters the grammar walk    *)
(* consumed, so the number and whether LEPT_PARSE_NUMBER_TOO_BIG is        *)
(* returned are those of the token alone, whatever bytes follow it.        *)
(***************************************************************************)
TokenAlone == SubSeq(Text, 1, LongestNumberPrefix(Text))

C9_OnlyTheTokenConverted ==
    (Done /\ stage # 1 /\ NumberDispatched /\ ret # LEPT_PARSE_INVALID_VALUE) =>
        /\ v_n = strtod(TokenAlone, 1).val
        /\ ret = LEPT_PARSE_NUMBER_TOO_BIG <=>
               IF stage = 3 THEN TooBig3(strtod(TokenAlone, 1))
               ELSE TooBig2(strtod(TokenAlone, 1))

(***************************************************************************)
(* C10: in every stage lept_parse terminates, and no scanner reads a byte  *)
(* at an index past the NUL terminator.  Termination is stated by a        *)
(* measure: StepsLeft is a natural number that every step of lept_parse    *)
(* makes smaller, and lept_parse is at a step of its body until it is      *)
(* done.  The loops inside one step (whitespace, digits, strtod) are       *)
(* recursive operators that stop at the terminator.                        *)
(***************************************************************************)
\* A bound on the steps lept_parse has left: the string scanner's loop has
\* at most the bytes from p to the terminator to read.
StepsLeft ==
    CASE pc = "start"  -> Len(json) + 5
      [] pc = "value"  -> Len(json) + 4
      [] pc = "string" -> Len(json) + 4 - p
      [] pc = "tail"   -> 1
      [] OTHER         -> 0

\* lept_parse is at one of the steps of its body.
Running == pc \in {"start", "value", "string", "tail"}

\* No byte past the terminator has been read, and lept_parse has returned or
\* is at a step of its body, with a natural number of steps left.
WithinInput ==
    /\ maxread <= Len(json) + 1
    /\ StepsLeft \in Nat
    /\ Done \/ Running

C10_TerminatesWithinInput ==
    WithinInput /\ [][WithinInput' /\ StepsLeft' < StepsLeft]_vars

C10_Witness ==
    /\ Done /\ stage = 1 /\ ret = LEPT_PARSE_INVALID_VALUE
    /\ Len(json) = 2 /\ json[1] = CH_n /\ json[2] = CH_u
    /\ maxread = Len(json) + 1

====
